---- MODULE Spec2Model ----
(***************************************************************************)
(* A model of the execution/caching core of sciunit:                       *)
(*   - sciunit/utils.py    method_cache: the memoizing decorator           *)
(*   - sciunit/__main__.py run: validation of the three user modules and   *)
(*                         the judge loop over tests and suites            *)
(* The two parts share no state; SpecCache and SpecRun are their           *)
(* specifications.                                                         *)
(***************************************************************************)
EXTENDS Integers, Sequences, FiniteSets, TLC

VARIABLES
    attrs,        \* attrs[i]: the __dict__ of model instance i
    heap,         \* heap[o]: the contents of the mutable object o
    cached_runs,  \* cached_runs[c]: the dict held by class c's own cached_runs
    has_cache,    \* has_cache[c]: class c's own namespace holds cached_runs
    now,          \* the clock read by datetime.now()
    received,     \* what the op bodies were last called with
    bodyRuns,     \* bodyRuns[m]: executions of the body of op m so far
    last,         \* the most recent call through a decorated method
    hist,         \* summaries of the calls made before the most recent one
    nCalls,       \* calls made so far
    nSets,        \* attribute mutations made by the user so far
    pc,           \* run: where the control is
    mods,         \* run: which of the three modules hold the attribute of their name
    tests,        \* run: tests.tests
    suites,       \* run: suites.suites
    stop,         \* run: the caller's stop_on_error
    vidx,         \* run: modules validated so far
    idx,          \* run: index in the list being judged
    judged,       \* run: the judge calls made, in order
    raised        \* run: the error that left run, "" when none

cacheVars == <<attrs, heap, cached_runs, has_cache, now, received, bodyRuns, last, hist,
               nCalls, nSets>>
runVars == <<pc, mods, tests, suites, stop, vidx, idx, judged, raised>>
vars == <<cacheVars, runVars>>

----------------------------------------------------------------------------
(* Bounds of the model.                                                    *)

MaxCalls == 2        \* calls through decorated methods in one behaviour
MaxSets == 1         \* attribute mutations by the user in one behaviour
RecursionLimit == 3  \* frames of decorate before the interpreter gives up
MaxVal == 20         \* largest attribute value kept
MaxTests == 2        \* longest tests.tests
MaxSuites == 2       \* longest suites.suites

----------------------------------------------------------------------------
(* Python dicts: functions on a finite set of keys.                        *)

EmptyDict == [k \in {} |-> 0]

DictSet(d, k, v) == [j \in DOMAIN d \cup {k} |-> IF j = k THEN v ELSE d[j]]

DictDel(d, k) == [j \in DOMAIN d \ {k} |-> d[j]]

\* dict.update(e): every key of e is written over d, no key of d is removed.
DictUpdate(d, e) == [j \in DOMAIN d \cup DOMAIN e |-> IF j \in DOMAIN e THEN e[j] ELSE d[j]]

\* dict.copy()
DictCopy(d) == [j \in DOMAIN d |-> d[j]]

----------------------------------------------------------------------------
(* The model classes and their instances.                                  *)

Classes == {"A", "B"}

\* class B(A)
Bases(c) == IF c = "B" THEN {"A"} ELSE {}

Instances == {1, 2, 3}

ClassOf(i) == IF i = 3 THEN "B" ELSE "A"

\* id(model): distinct for objects alive at the same time.
Id(i) == i

\* The mutable objects (lists) the attributes may refer to. An attribute
\* value is an integer or a reference to one of them; the contents of a list
\* are kept as the number of items appended to it.
Objects == {101, 102, 103}

\* The list the constructor of instance i binds to self.buf.
NewList(i) == 100 + i

\* What a dict's values read as: a reference reads as the contents of the
\* object it refers to.
Value(d, h) == [k \in DOMAIN d |-> IF d[k] \in Objects THEN h[d[k]] ELSE d[k]]

\* A value that cannot be encoded for hashing.
Unencodable == -1

\* key[0] == '_'
IsPrivate(k) == k \in {"_h"}

\* The decorated methods of the classes: the arguments of method_cache and
\* the name of the function it decorates.
WGet == [by |-> "value", method |-> "run", func |-> "get"]
WGetI == [by |-> "instance", method |-> "run", func |-> "get_i"]
WDouble == [by |-> "value", method |-> "double", func |-> "double"]
WGetS == [by |-> "value", method |-> "simulate", func |-> "get_s"]
WGetT == [by |-> "value", method |-> "tune", func |-> "get_t"]
WBad == [by |-> "lru", method |-> "run", func |-> "get_b"]
WBadS == [by |-> "lru", method |-> "simulate", func |-> "get_bs"]

Wrappers == {WGet, WGetI, WDouble, WGetS, WGetT, WBad, WBadS}

\* The names the classes define; run and tune are plain methods, the others
\* are decorated. No class defines simulate.
ClassMethods == {"run", "tune"} \cup {w.func : w \in Wrappers}

\* hasattr(model, method)
HasMethod(i, m) == m \in ClassMethods

\* The wrappers by the name of the function they decorate.
WrapperOf(m) == CHOOSE w \in Wrappers : w.func = m

IsDecorated(m) == \E w \in Wrappers : w.func = m

----------------------------------------------------------------------------
(* SciUnit.dict_hash, which lives in sciunit/base.py: a digest of a mapping *)
(* that equal mappings share and unequal mappings do not, and an error on   *)
(* a value that cannot be encoded.                                          *)

Encodable(d) == \A k \in DOMAIN d : d[k] # Unencodable

DictHash(v) == [hexdigest |-> v]

----------------------------------------------------------------------------
(* The bodies of the user's methods.                                       *)

\* run(**args): the expensive operation. Called with n it consumes the
\* attribute x (del self.x); called without, it computes x from the hidden
\* state _h.
RunBody(d, args) ==
    IF "n" \in DOMAIN args THEN DictDel(d, "x")
    ELSE DictSet(d, "x", IF "_h" \in DOMAIN d /\ d["_h"] = 1 THEN 20 ELSE 10)

\* tune(): a second plain operation, it sets x to a constant.
TuneBody(d) == DictSet(d, "x", 7)

\* The body of the plain operation named m.
OpBody(m, d, args) == IF m = "tune" THEN TuneBody(d) ELSE RunBody(d, args)

\* double: self.x *= 2
DoubleBody(d) == [d EXCEPT !["x"] = 2 * @]

\* What the decorated dependents (get, get_i, ...) return: a value read off
\* the model's current public attributes.
FuncResult(d) == [k \in {j \in DOMAIN d : ~IsPrivate(j)} |-> d[k]]

----------------------------------------------------------------------------
(* method_cache: the steps of decorate.                                    *)

\* A decorator that drops the arguments given for the operation.
MethodArgsM(w, kw) == IF w.func = w.method THEN kw ELSE EmptyDict

\* if func.__name__ == method: method_args = kwargs
\* else: method_args = kwargs[method] if method in kwargs else {}
MethodArgs(w, kw) ==
    IF w.func = w.method THEN kw
    ELSE IF w.method \in DOMAIN kw THEN kw[w.method] ELSE EmptyDict

\* hasattr(model.__class__, 'cached_runs'): the class's own attribute or an
\* inherited one.
HasCachedRuns(has, c) == has[c] \/ \E b \in Bases(c) : has[b]

\* The class whose dict model.__class__.cached_runs evaluates to.
CacheOwner(has, c) == IF has[c] THEN c ELSE CHOOSE b \in Bases(c) : has[b]

\* {key: value for key, value in model.__dict__.items() if key[0] != '_'}
ModelDict(d) == [k \in {j \in DOMAIN d : ~IsPrivate(j)} |-> d[k]]

\* A decorator that takes any policy name for 'instance'.
SupportedByM(w) == TRUE

SupportedBy(w) == w.by \in {"value", "instance"}

\* A by-instance key that leaves the instance out.
HashInputM(w, i, d, margs) ==
    IF w.by = "value" THEN [attrs |-> ModelDict(d), args |-> margs]
    ELSE [id |-> 0, args |-> margs]

\* The mapping handed to dict_hash.
HashInput(w, i, d, margs) ==
    IF w.by = "value" THEN [attrs |-> ModelDict(d), args |-> margs]
    ELSE [id |-> Id(i), args |-> margs]

\* Whether dict_hash can encode that mapping.
CanHash(w, d, margs) ==
    IF w.by = "value" THEN Encodable(ModelDict(d)) /\ Encodable(margs)
    ELSE Encodable(margs)

\* cache[method_signature] = (datetime.now(), model.__dict__.copy()): the copy
\* is shallow, it holds the references the model holds.
Store(cache, sig, t, d) == DictSet(cache, sig, [created_at |-> t, snapshot |-> DictCopy(d)])

\* _, attrs = cache[method_signature]; model.__dict__.update(attrs)
Restore(d, entry) == DictUpdate(d, entry.snapshot)

\* What a call of decorate hands back to the action that made it.
Ret(st, outcome, looked, hit, margs, fcalls, funcRan, result) ==
    [st |-> st, outcome |-> outcome, looked |-> looked, hit |-> hit, margs |-> margs,
     fcalls |-> fcalls, funcRan |-> funcRan, result |-> result]

\* return func(*args, **kwargs): the body of the decorated function.
CallFunc(st, i, w, pos, kw, looked, hit, margs, fcalls) ==
    IF w.func = "double"
    THEN IF "x" \notin DOMAIN st.attrs[i]
         THEN Ret(st, "AttributeError", looked, hit, margs, fcalls, TRUE, EmptyDict)
         ELSE Ret([st EXCEPT !.attrs[i] = DoubleBody(@),
                             !.received = [op |-> "double", pos |-> pos, kw |-> kw],
                             !.bodyRuns["double"] = @ + 1],
                  "ok", looked, hit, margs, fcalls, TRUE, EmptyDict)
    ELSE Ret(st, "ok", looked, hit, margs, fcalls, TRUE, FuncResult(st.attrs[i]))

RECURSIVE Decorate(_, _, _, _, _, _)
Decorate(st, i, w, pos, kw, depth) ==
    IF depth > RecursionLimit
    THEN Ret(st, "RecursionError", FALSE, FALSE, EmptyDict, 0, FALSE, EmptyDict)
    ELSE IF ~HasMethod(i, w.method)
    THEN Ret(st, "AssertionError", FALSE, FALSE, EmptyDict, 0, FALSE, EmptyDict)
    ELSE
    LET cls == ClassOf(i)
        margs == MethodArgs(w, kw)
        st1 == IF HasCachedRuns(st.has, cls) THEN st ELSE [st EXCEPT !.has[cls] = TRUE]
        owner == CacheOwner(st1.has, cls)
        cache == st1.cache[owner]
    IN  IF ~SupportedBy(w)
        THEN Ret(st1, "ValueError", FALSE, FALSE, margs, 0, FALSE, EmptyDict)
        ELSE IF ~CanHash(w, st1.attrs[i], margs)
        THEN Ret(st1, "FingerprintError", FALSE, FALSE, margs, 0, FALSE, EmptyDict)
        ELSE
        LET sig == DictHash(HashInput(w, i, Value(st1.attrs[i], st1.heap), margs))
        IN  IF sig \notin DOMAIN cache
            THEN \* f = getattr(model, method); f(**method_args)
                 IF IsDecorated(w.method)
                 THEN LET r == Decorate(st1, i, WrapperOf(w.method), <<>>, margs, depth + 1)
                      IN  IF r.outcome # "ok"
                          THEN Ret(r.st, r.outcome, TRUE, FALSE, margs, 1, FALSE, EmptyDict)
                          ELSE CallFunc([r.st EXCEPT
                                            !.cache[owner] = Store(@, sig, r.st.now, r.st.attrs[i]),
                                            !.now = @ + 1],
                                        i, w, pos, kw, TRUE, FALSE, margs, 1)
                 ELSE LET st2 == [st1 EXCEPT
                                     !.attrs[i] = OpBody(w.method, @, margs),
                                     !.received = [op |-> w.method, pos |-> <<>>, kw |-> margs],
                                     !.bodyRuns[w.method] = @ + 1]
                      IN  CallFunc([st2 EXCEPT
                                       !.cache[owner] = Store(@, sig, st2.now, st2.attrs[i]),
                                       !.now = @ + 1],
                                   i, w, pos, kw, TRUE, FALSE, margs, 1)
            ELSE CallFunc([st1 EXCEPT !.attrs[i] = Restore(@, cache[sig])],
                          i, w, pos, kw, TRUE, TRUE, margs, 0)

----------------------------------------------------------------------------
(* The caching part as a state machine: the user mutates attributes and    *)
(* calls decorated methods.                                                *)

\* The calls made in the model, <<wrapper, positional arguments, keyword
\* arguments>>: instance 1 makes every kind of call, the other instances
\* the calls that can meet instance 1's entries.
CallChoices(i) ==
    IF i = 1
    THEN {<<WGet, <<>>, kw>> : kw \in {EmptyDict, [k |-> 1], [run |-> EmptyDict],
                                        [run |-> [n |-> 1]], [run |-> [n |-> 1], k |-> 1]}}
         \cup {<<WGetI, <<>>, kw>> : kw \in {EmptyDict, [run |-> [n |-> 1]],
                                              [run |-> [n |-> Unencodable]]}}
         \cup {<<WDouble, pos, kw>> : pos \in {<<>>, <<1>>}, kw \in {EmptyDict, [n |-> 1]}}
         \cup {<<w, <<>>, EmptyDict>> : w \in {WGetS, WGetT, WBad, WBadS}}
    ELSE IF i = 2
    THEN {<<WGet, <<>>, EmptyDict>>, <<WGet, <<>>, [run |-> [n |-> 1]]>>,
          <<WGetI, <<>>, EmptyDict>>, <<WDouble, <<>>, EmptyDict>>}
    ELSE {<<WGet, <<>>, EmptyDict>>, <<WDouble, <<>>, EmptyDict>>}

\* The attribute assignments the user makes, <<name, value>>.
SetChoices(i) ==
    IF i = 1 THEN {<<"x", 5>>, <<"x", Unencodable>>, <<"_h", 1>>}
    ELSE IF i = 2 THEN {<<"_h", 1>>}
    ELSE {}

\* The attributes the user deletes.
DelChoices(i) == IF i = 1 THEN {"x"} ELSE {}

\* The attributes whose list the user appends to.
AppendChoices(i) == IF i = 1 THEN {"buf"} ELSE {}

NoCall ==
    [w |-> "none", inst |-> 0, pos |-> <<>>, kw |-> EmptyDict, pre |-> EmptyDict,
     outcome |-> "none", looked |-> FALSE, hit |-> FALSE, fcalls |-> 0,
     funcRan |-> FALSE, result |-> EmptyDict, post |-> EmptyDict, opBodyRuns |-> 0,
     added |-> 0, sig |-> DictHash(EmptyDict), owner |-> "none"]

Summary(c) ==
    [w |-> c.w, inst |-> c.inst, kw |-> c.kw, pre |-> c.pre, outcome |-> c.outcome,
     looked |-> c.looked, hit |-> c.hit, fcalls |-> c.fcalls, post |-> c.post,
     pos |-> c.pos, added |-> c.added, sig |-> c.sig, owner |-> c.owner]

\* The key a call of wrapper w on instance i looks up, and the class whose
\* cached_runs it looks it up in.
LookupKey(i, w, kw, a, h) == DictHash(HashInput(w, i, Value(a[i], h), MethodArgs(w, kw)))

LookupOwner(i, has) ==
    IF HasCachedRuns(has, ClassOf(i)) THEN CacheOwner(has, ClassOf(i)) ELSE ClassOf(i)

\* The entries held by the classes' caches.
CacheSize(c) == Cardinality(DOMAIN c["A"]) + Cardinality(DOMAIN c["B"])

ValuesOk(a) ==
    \A i \in Instances : \A k \in DOMAIN a[i] : a[i][k] \in Objects \/ a[i][k] <= MaxVal

InitCacheVars ==
    /\ attrs = [i \in Instances |-> [x |-> 5, _h |-> 0, buf |-> NewList(i)]]
    /\ heap = [o \in Objects |-> 0]
    /\ cached_runs = [c \in Classes |-> EmptyDict]
    /\ has_cache = [c \in Classes |-> FALSE]
    /\ now = 0
    /\ received = [op |-> "none", pos |-> <<>>, kw |-> EmptyDict]
    /\ bodyRuns = [m \in {"run", "tune", "double"} |-> 0]
    /\ last = NoCall
    /\ hist = {}
    /\ nCalls = 0
    /\ nSets = 0

\* model.k = v, by the user between calls
SetAttr(i, k, v) ==
    /\ nSets < MaxSets
    /\ attrs' = [attrs EXCEPT ![i] = DictSet(@, k, v)]
    /\ nSets' = nSets + 1
    /\ UNCHANGED <<heap, cached_runs, has_cache, now, received, bodyRuns, last, hist, nCalls>>
    /\ UNCHANGED runVars

\* del model.k, by the user between calls
DelAttr(i, k) ==
    /\ nSets < MaxSets
    /\ k \in DOMAIN attrs[i]
    /\ attrs' = [attrs EXCEPT ![i] = DictDel(@, k)]
    /\ nSets' = nSets + 1
    /\ UNCHANGED <<heap, cached_runs, has_cache, now, received, bodyRuns, last, hist, nCalls>>
    /\ UNCHANGED runVars

\* model.k.append(item), by the user between calls: the list is changed in
\* place, for every holder of a reference to it.
AppendTo(i, k) ==
    /\ nSets < MaxSets
    /\ k \in DOMAIN attrs[i]
    /\ attrs[i][k] \in Objects
    /\ heap' = [heap EXCEPT ![attrs[i][k]] = @ + 1]
    /\ nSets' = nSets + 1
    /\ UNCHANGED <<attrs, cached_runs, has_cache, now, received, bodyRuns, last, hist, nCalls>>
    /\ UNCHANGED runVars

\* model.<w.func>(*pos, **kw): one call through the decorator.
Call(i, w, pos, kw) ==
    /\ nCalls < MaxCalls
    /\ \E r \in {Decorate([attrs |-> attrs, heap |-> heap, cache |-> cached_runs, has |-> has_cache,
                           now |-> now, received |-> received, bodyRuns |-> bodyRuns],
                          i, w, pos, kw, 1)} :
           /\ ValuesOk(r.st.attrs)
           /\ attrs' = r.st.attrs
           /\ cached_runs' = r.st.cache
           /\ has_cache' = r.st.has
           /\ now' = r.st.now
           /\ received' = r.st.received
           /\ bodyRuns' = r.st.bodyRuns
           /\ last' = [w |-> w.func, inst |-> i, pos |-> pos, kw |-> kw, pre |-> Value(attrs[i], heap),
                       outcome |-> r.outcome, looked |-> r.looked, hit |-> r.hit,
                       fcalls |-> r.fcalls, funcRan |-> r.funcRan, result |-> r.result,
                       post |-> Value(r.st.attrs[i], r.st.heap),
                       opBodyRuns |-> IF w.method \in DOMAIN bodyRuns
                                      THEN r.st.bodyRuns[w.method] - bodyRuns[w.method]
                                      ELSE 0,
                       added |-> CacheSize(r.st.cache) - CacheSize(cached_runs),
                       sig |-> IF r.looked THEN LookupKey(i, w, kw, attrs, heap)
                               ELSE DictHash(EmptyDict),
                       owner |-> IF r.looked THEN LookupOwner(i, has_cache) ELSE "none"]
    /\ hist' = IF last.w = "none" THEN hist ELSE hist \cup {Summary(last)}
    /\ nCalls' = nCalls + 1
    /\ UNCHANGED <<nSets, heap>>
    /\ UNCHANGED runVars

InitRunIdle ==
    /\ pc = "idle"
    /\ mods = [m \in {"models", "tests", "suites"} |-> TRUE]
    /\ tests = <<>>
    /\ suites = <<>>
    /\ stop = TRUE
    /\ vidx = 0
    /\ idx = 0
    /\ judged = <<>>
    /\ raised = ""

InitCache == InitCacheVars /\ InitRunIdle

NextCache ==
    \/ \E i \in Instances : \E c \in SetChoices(i) : SetAttr(i, c[1], c[2])
    \/ \E i \in Instances : \E k \in DelChoices(i) : DelAttr(i, k)
    \/ \E i \in Instances : \E k \in AppendChoices(i) : AppendTo(i, k)
    \/ \E i \in Instances : \E c \in CallChoices(i) : Call(i, c[1], c[2], c[3])

SpecCache == InitCache /\ [][NextCache]_vars

----------------------------------------------------------------------------
(* __main__.run: the three modules are validated, then every test and      *)
(* every suite judges the models.                                          *)

\* for x in ['models','tests','suites']
Modules == <<"models", "tests", "suites">>

\* A validation that accepts every module.
HasOwnNameM(m, x) == TRUE

\* hasattr(module, x)
HasOwnName(m, x) == m[x]

\* A judge call that leaves stop_on_error at its default.
PassedStopM(s) == TRUE

\* The stop_on_error that run hands to judge.
PassedStop(s) == s

\* models.models, the collection handed to every judge.
ModelsAttr == "models.models"

JudgeCall(who, s, err) ==
    [who |-> who, models |-> ModelsAttr, stop_on_error |-> PassedStop(s), raises |-> err]

InitRunVars ==
    /\ pc = "validate"
    /\ mods \in [{"models", "tests", "suites"} -> BOOLEAN]
    /\ tests \in {SubSeq(<<"t1", "t2", "t3">>, 1, n) : n \in 0..MaxTests}
    /\ suites \in {SubSeq(<<"s1", "s2", "s3">>, 1, n) : n \in 0..MaxSuites}
    /\ stop \in BOOLEAN
    /\ vidx = 0
    /\ idx = 1
    /\ judged = <<>>
    /\ raised = ""

\* assert hasattr(module, x), for the next module of the list
Validate ==
    /\ pc = "validate"
    /\ vidx < Len(Modules)
    /\ IF HasOwnName(mods, Modules[vidx + 1])
       THEN /\ vidx' = vidx + 1
            /\ UNCHANGED <<pc, raised>>
       ELSE /\ pc' = "raised"
            /\ raised' = "AssertionError"
            /\ UNCHANGED vidx
    /\ UNCHANGED <<mods, tests, suites, stop, idx, judged>>
    /\ UNCHANGED cacheVars

\* The validation loop is over: for test in tests.tests
StartTests ==
    /\ pc = "validate"
    /\ vidx = Len(Modules)
    /\ pc' = "tests"
    /\ idx' = 1
    /\ UNCHANGED <<mods, tests, suites, stop, vidx, judged, raised>>
    /\ UNCHANGED cacheVars

\* test.judge(models.models, stop_on_error=stop_on_error), which returns or raises
JudgeTest(err) ==
    /\ pc = "tests"
    /\ idx <= Len(tests)
    /\ judged' = Append(judged, JudgeCall(tests[idx], stop, err))
    /\ IF err
       THEN /\ pc' = "raised"
            /\ raised' = "JudgeError"
            /\ UNCHANGED idx
       ELSE /\ idx' = idx + 1
            /\ UNCHANGED <<pc, raised>>
    /\ UNCHANGED <<mods, tests, suites, stop, vidx>>
    /\ UNCHANGED cacheVars

\* The tests are done: for suite in suites.suites
StartSuites ==
    /\ pc = "tests"
    /\ idx > Len(tests)
    /\ pc' = "suites"
    /\ idx' = 1
    /\ UNCHANGED <<mods, tests, suites, stop, vidx, judged, raised>>
    /\ UNCHANGED cacheVars

\* suite.judge(models.models, stop_on_error=stop_on_error), which returns or raises
JudgeSuite(err) ==
    /\ pc = "suites"
    /\ idx <= Len(suites)
    /\ judged' = Append(judged, JudgeCall(suites[idx], stop, err))
    /\ IF err
       THEN /\ pc' = "raised"
            /\ raised' = "JudgeError"
            /\ UNCHANGED idx
       ELSE /\ idx' = idx + 1
            /\ UNCHANGED <<pc, raised>>
    /\ UNCHANGED <<mods, tests, suites, stop, vidx>>
    /\ UNCHANGED cacheVars

\* run returns
Finish ==
    /\ pc = "suites"
    /\ idx > Len(suites)
    /\ pc' = "done"
    /\ UNCHANGED <<mods, tests, suites, stop, vidx, idx, judged, raised>>
    /\ UNCHANGED cacheVars

InitRun == InitRunVars /\ InitCacheVars

NextRun ==
    \/ Validate
    \/ StartTests
    \/ \E err \in BOOLEAN : JudgeTest(err)
    \/ StartSuites
    \/ \E err \in BOOLEAN : JudgeSuite(err)
    \/ Finish

SpecRun == InitRun /\ [][NextRun]_vars

----------------------------------------------------------------------------
(* Properties of run.                                                      *)

\* The judge calls run has to make, in order.
Plan == tests \o suites

\* C5: the judge calls made so far are a prefix of [t1..tn, s1..sm], each
\* made with the same model collection and the caller's stop_on_error; when
\* run returns every test and suite has been judged and none raised; a judge
\* call that raised is the last one made, and its error left run.
C5_JudgeSequence ==
    /\ Len(judged) <= Len(Plan)
    /\ \A k \in 1..Len(judged) :
          /\ judged[k].who = Plan[k]
          /\ judged[k].models = judged[1].models
          /\ judged[k].stop_on_error = stop
          /\ judged[k].raises => (k = Len(judged) /\ pc = "raised" /\ raised = "JudgeError")
    /\ pc = "done" => Len(judged) = Len(Plan)

\* A test raised after an earlier test was judged, with a suite still to come.
C5_Witness ==
    /\ Len(judged) = 2
    /\ judged[2].raises
    /\ ~stop
    /\ Len(Plan) > 2
    /\ pc = "raised"

\* C6: with a module that lacks the attribute of its name, no judge call is
\* ever made and run ends by raising; a judge call is only made once all
\* three modules have been validated.
C6_FailFast ==
    /\ (\E x \in {"models", "tests", "suites"} : ~mods[x]) =>
          (judged = <<>> /\ pc \in {"validate", "raised"})
    /\ judged # <<>> => vidx = Len(Modules)
    /\ (pc = "raised" /\ judged = <<>>) => raised = "AssertionError"

\* run raised on the last module, with tests and suites waiting.
C6_Witness ==
    /\ pc = "raised"
    /\ raised = "AssertionError"
    /\ mods["models"] /\ mods["tests"] /\ ~mods["suites"]
    /\ tests # <<>>
    /\ judged = <<>>

----------------------------------------------------------------------------
(* Properties of method_cache.  last is the call just made, hist the calls *)
(* made before it.                                                         *)

\* The attributes whose names do not start with an underscore.
PublicOf(d) == [k \in {j \in DOMAIN d : ~IsPrivate(j)} |-> d[k]]

PolicyOf(c) == WrapperOf(c.w).by

IsOpItself(c) == WrapperOf(c.w).func = WrapperOf(c.w).method

\* The arguments meant for the operation: the call's own keyword arguments
\* when the decorated method is the operation, else the value passed under
\* the operation's name, the empty mapping when there is none.
OpArgsOf(c) ==
    IF IsOpItself(c) THEN c.kw
    ELSE IF WrapperOf(c.w).method \in DOMAIN c.kw THEN c.kw[WrapperOf(c.w).method]
    ELSE EmptyDict

\* C1: for the by-value wrapper get, which is not the operation run: when a
\* call that ran the operation and a later call on the same model start with
\* equal public attributes and equal operation arguments, the later call is
\* a hit that does not run the operation again, and the public attributes
\* after it equal those after the earlier call.
C1_CacheIdempotence ==
    \A e \in hist :
        ( /\ last.w = "get" /\ e.w = "get"
          /\ e.inst = last.inst
          /\ e.outcome = "ok" /\ ~e.hit
          /\ PublicOf(e.pre) = PublicOf(last.pre)
          /\ OpArgsOf(e) = OpArgsOf(last) )
        => ( /\ last.outcome = "ok"
             /\ last.hit
             /\ e.fcalls + last.fcalls = 1
             /\ PublicOf(last.post) = PublicOf(e.post) )

\* C2: a by-value call that gets to the cache lookup is a hit whenever an
\* earlier call of the same wrapper, on an instance of the same class, got
\* to the lookup with equal public attributes and equal operation arguments.
C2_ByValueHit ==
    \A e \in hist :
        ( /\ last.w # "none" /\ e.w = last.w
          /\ PolicyOf(last) = "value"
          /\ e.looked /\ last.looked
          /\ ClassOf(e.inst) = ClassOf(last.inst)
          /\ PublicOf(e.pre) = PublicOf(last.pre)
          /\ OpArgsOf(e) = OpArgsOf(last) )
        => last.hit

\* C3: a by-instance call is a hit only if an earlier by-instance call on
\* the same instance, with equal operation arguments, stored the entry;
\* whatever was called on other instances, the call is a miss that runs the
\* operation once.
C3_PolicyIsolation ==
    ( /\ last.w # "none"
      /\ PolicyOf(last) = "instance"
      /\ last.looked
      /\ ~ \E e \in hist : /\ e.w # "none"
                           /\ PolicyOf(e) = "instance"
                           /\ e.inst = last.inst
                           /\ OpArgsOf(e) = OpArgsOf(last) )
    => ( /\ ~last.hit
         /\ last.fcalls = 1
         /\ last.opBodyRuns = 1
         /\ last.added = 1 )

\* The second instance misses although the first instance, with identical
\* attributes and arguments, has run the operation and stored its entry.
C3_Witness ==
    /\ last.w = "get_i" /\ last.inst = 2 /\ last.outcome = "ok"
    /\ ~last.hit /\ last.opBodyRuns = 1
    /\ \E e \in hist : /\ e.w = "get_i" /\ e.inst = 1 /\ e.outcome = "ok"
                       /\ e.pre = last.pre
                       /\ OpArgsOf(e) = OpArgsOf(last)

\* C4: the first call of double on a model with x = 5 and a fresh cache
\* returns with x = 10, one cache entry and one execution of the doubling;
\* with x reset to 5 a second call is a hit that returns with x = 10 and the
\* doubling still executed once.
C4_DoubleScenario ==
    /\ ( /\ last.w = "double" /\ nCalls = 1
         /\ "x" \in DOMAIN last.pre /\ last.pre["x"] = 5 )
       => ( /\ last.outcome = "ok"
            /\ attrs[last.inst]["x"] = 10
            /\ CacheSize(cached_runs) = 1
            /\ bodyRuns["double"] = 1 )
    /\ \A e \in hist :
          ( /\ last.w = "double" /\ e.w = "double" /\ nCalls = 2
            /\ e.inst = last.inst
            /\ "x" \in DOMAIN e.pre /\ e.pre["x"] = 5
            /\ "x" \in DOMAIN last.pre /\ last.pre["x"] = 5 )
          => ( /\ last.outcome = "ok"
               /\ last.hit
               /\ attrs[last.inst]["x"] = 10
               /\ bodyRuns["double"] = 1 )


\* Whether the claim's fingerprint of the call exists: no public attribute
\* (by value) and no operation argument holds a value that cannot be encoded.
FingerprintFails(c) ==
    \/ \E k \in DOMAIN OpArgsOf(c) : OpArgsOf(c)[k] = Unencodable
    \/ /\ PolicyOf(c) = "value"
       /\ \E k \in DOMAIN PublicOf(c.pre) : PublicOf(c.pre)[k] = Unencodable

\* C7: a call whose fingerprint cannot be computed raises nothing: it runs
\* the operation uncached, runs the decorated method and returns its result.
C7_FingerprintBypass ==
    ( /\ last.w # "none"
      /\ PolicyOf(last) \in {"value", "instance"}
      /\ HasMethod(last.inst, WrapperOf(last.w).method)
      /\ FingerprintFails(last) )
    => ( /\ last.outcome = "ok"
         /\ last.fcalls = 1
         /\ last.funcRan
         /\ last.added = 0 )

\* C8 as stated: every call through a wrapper with an unsupported policy
\* raises ValueError, without running the operation or the decorated method
\* and without adding a cache entry.
C8_AnyCall ==
    ( /\ last.w # "none"
      /\ PolicyOf(last) \notin {"value", "instance"} )
    => ( /\ last.outcome = "ValueError"
         /\ last.fcalls = 0
         /\ last.opBodyRuns = 0
         /\ ~last.funcRan
         /\ last.added = 0 )

\* C8, amended: a call through a wrapper with an unsupported policy, on a
\* model that has the operation, raises ValueError, without running the
\* operation or the decorated method and without adding a cache entry; on a
\* model without the operation the call fails the assertion instead.
C8_UnsupportedPolicy ==
    ( /\ last.w # "none"
      /\ PolicyOf(last) \notin {"value", "instance"} )
    => ( /\ last.outcome = IF HasMethod(last.inst, WrapperOf(last.w).method)
                           THEN "ValueError" ELSE "AssertionError"
         /\ last.fcalls = 0
         /\ last.opBodyRuns = 0
         /\ ~last.funcRan
         /\ last.added = 0 )

\* The unsupported policy is met with entries already in the cache.
C8_Witness ==
    /\ last.w = "get_b"
    /\ last.outcome = "ValueError"
    /\ CacheSize(cached_runs) = 1

\* C9: for a decorated method that is not the operation: a miss runs the
\* operation with the arguments passed under the operation's name (none when
\* absent); a hit restores an entry that an earlier call stored for equal
\* operation arguments; and a call is a hit whenever an earlier call
\* in the same scope had equal operation arguments, whatever the other
\* arguments of the two calls.
C9_DependencyArgs ==
    ( /\ last.w # "none"
      /\ ~IsOpItself(last)
      /\ last.looked )
    => ( /\ ~last.hit => ( /\ last.fcalls = 1
                           /\ received = [op |-> WrapperOf(last.w).method, pos |-> <<>>,
                                          kw |-> OpArgsOf(last)] )
         /\ last.hit => \E e \in hist : /\ e.looked /\ e.added = 1
                                         /\ e.owner = last.owner /\ e.sig = last.sig
                                         /\ OpArgsOf(e) = OpArgsOf(last)
         /\ \A e \in hist :
               ( /\ e.w = last.w /\ e.looked
                 /\ OpArgsOf(e) = OpArgsOf(last)
                 /\ IF PolicyOf(last) = "value"
                    THEN /\ ClassOf(e.inst) = ClassOf(last.inst)
                         /\ PublicOf(e.pre) = PublicOf(last.pre)
                    ELSE e.inst = last.inst )
               => last.hit )

\* A hit on the entry of a call that differed in another argument only.
C9_Witness ==
    /\ last.w = "get" /\ last.hit
    /\ last.kw = [run |-> [n |-> 1], k |-> 1]
    /\ \E e \in hist : e.w = "get" /\ ~e.hit /\ e.kw = [run |-> [n |-> 1]]

\* What an entry reads as: its timestamp and the values of its snapshot.
EntryValue(e, h) == [created_at |-> e.created_at, snapshot |-> Value(e.snapshot, h)]

\* C10: no step changes or removes an entry of a cache, whether a wrapper
\* call or a mutation of a model's attributes, and a step adds at most one
\* entry, only by a call that missed and ran the operation.
C10_WriteOnce ==
    [][ /\ \A c \in Classes : \A s \in DOMAIN cached_runs[c] :
              /\ s \in DOMAIN cached_runs'[c]
              /\ EntryValue(cached_runs'[c][s], heap') = EntryValue(cached_runs[c][s], heap)
        /\ CacheSize(cached_runs') # CacheSize(cached_runs) =>
              /\ CacheSize(cached_runs') = CacheSize(cached_runs) + 1
              /\ last'.looked /\ ~last'.hit /\ last'.fcalls = 1 ]_vars

\* The operation a call's wrapper depends on.
OpOf(c) == WrapperOf(c.w).method

\* C11: a hit restores an entry that an earlier call stored after running
\* the same operation on an instance of the same class: never the entry of a
\* wrapper for another operation, nor that of an instance of another class.
C11_HitScope ==
    last.hit =>
        \A e \in hist :
            ( /\ e.looked /\ e.added = 1
              /\ e.owner = last.owner
              /\ e.sig = last.sig )
            => ( /\ OpOf(e) = OpOf(last)
                 /\ ClassOf(e.inst) = ClassOf(last.inst) )

\* C12: for a decorated method that is the operation itself: a miss runs
\* the operation with exactly the positional and keyword arguments of the
\* call, and two calls that start from equal public attributes with
\* different arguments, positional or keyword, never look up the same entry.
C12_OpArguments ==
    ( /\ last.w # "none"
      /\ IsOpItself(last)
      /\ last.looked )
    => ( /\ ~last.hit => ( /\ last.opBodyRuns >= 1
                           /\ received = [op |-> OpOf(last), pos |-> last.pos,
                                          kw |-> last.kw] )
         /\ \A e \in hist :
               ( /\ e.w = last.w /\ e.looked
                 /\ ClassOf(e.inst) = ClassOf(last.inst)
                 /\ PublicOf(e.pre) = PublicOf(last.pre)
                 /\ (e.pos # last.pos \/ e.kw # last.kw) )
               => ~(e.owner = last.owner /\ e.sig = last.sig) )

====
